---- MODULE Spec2Model ----
(***************************************************************************)
(* Model of relay.go: one discover / match / poll / assemble / publish     *)
(* cycle of the ATC sensor to MQTT relay.                                  *)
(*                                                                         *)
(* Strings whose characters the program inspects (section names, sensor    *)
(* names, addresses, local names) are sequences of one-character strings,  *)
(* so that strings.ToLower and the two regular expressions are computed    *)
(* character by character.  Topics are never inspected and are plain       *)
(* strings.                                                                *)
(***************************************************************************)
EXTENDS Integers, Sequences, FiniteSets, TLC

VARIABLES
    iniFile,        \* what ini.Load finds at the path devices.ini
    argSettings,    \* the path the command line gives for -device-settings
    deviceSettingsFile, \* value of the flag variable deviceSettingsFile
    scanDuration,   \* value of the -sd flag, milliseconds
    pc,             \* position of main
    exitCode,       \* -1 while the process runs, else the exit status
    knownSensors,   \* main: knownSensors map
    foundDevices,   \* main: foundDevices map
    now,            \* wall clock, milliseconds
    scanStart,      \* value of now when scanContext was created
    scanErr,        \* cause of the error ble.Scan returned ("none" before)
    adv,            \* world device whose advertisement the scan callback handled last, or 0
    seen,           \* world devices whose advertisement the callback of the running scan handled
    fatal,          \* what ended the process abnormally ("none" otherwise)
    todo,           \* keys of foundDevices the poll loop has not visited yet
    cur,            \* key the poll loop is at (nameOrAddress of getDeviceData)
    polls,          \* number of getDeviceData calls per key
    cln,            \* per getDeviceData call: world device of the client, or 0
    sess,           \* per call: link of cln, "none", "open", "closing" or "closed"
    expired,        \* the deadline of the serviceDiscoveryContext created last has passed
    watcher,        \* per call: the goroutine, "none", "waiting" or "finished"
    done,           \* per call: the done channel is closed
    closes,         \* per call: number of close(done) executed
    profile,        \* getDeviceData: p, the discovered profile
    rpos,           \* readCharacteristics: <<service index, characteristic index>>
    payload,        \* readCharacteristics / getDeviceData: payload map
    payloads,       \* main: payloads map, topic -> payload
    okPolls,        \* key -> payload, for the getDeviceData calls that returned a nil error
    mqttConnects,   \* number of client.Connect calls
    mqttUp,         \* the broker connection is open
    pubTodo,        \* topics the publish loop has not visited yet
    pubCalls,       \* number of client.Publish calls
    published,      \* topic -> sequence of the payloads client.Publish sent on it
    dec             \* decoding taken alone: the bytes read and what they decode to

vars == << iniFile, argSettings, deviceSettingsFile, scanDuration, pc, exitCode, knownSensors, foundDevices,
           now, scanStart, scanErr, adv, seen, fatal, todo, cur, polls, cln, sess,
           expired, watcher, done, closes, profile, rpos, payload, payloads,
           okPolls, mqttConnects, mqttUp, pubTodo, pubCalls, published, dec >>

----------------------------------------------------------------------------
(* Characters and strings *)

UpperChars == << "A","B","C","D","E","F","G","H","I","J","K","L","M",
                 "N","O","P","Q","R","S","T","U","V","W","X","Y","Z" >>

LowerChars == << "a","b","c","d","e","f","g","h","i","j","k","l","m",
                 "n","o","p","q","r","s","t","u","v","w","x","y","z" >>

DigitChars == { "0","1","2","3","4","5","6","7","8","9" }

UpperSet == { UpperChars[i] : i \in 1..26 }

\* [0-9A-Fa-f]
HexChars == DigitChars \cup { "A","B","C","D","E","F","a","b","c","d","e","f" }

LowerChar(c) ==
    IF c \in UpperSet
    THEN LowerChars[CHOOSE i \in 1..26 : UpperChars[i] = c]
    ELSE c

\* strings.ToLower
ToLower(s) == [ i \in 1..Len(s) |-> LowerChar(s[i]) ]

\* regexp.MustCompile(macAddressRegex).MatchString(s): unanchored
\* ([0-9A-Fa-f]{2}:){5}[0-9A-Fa-f]{2}
macAddressRegex(s) ==
    \E i \in 1..(Len(s) - 16) :
        \A k \in 0..16 :
            IF k % 3 = 2 THEN s[i + k] = ":" ELSE s[i + k] \in HexChars

\* regexp.MustCompile(atcDeviceRegex).MatchString(s): unanchored ATC_[0-9A-Z]+
atcDeviceRegex(s) ==
    \E i \in 1..(Len(s) - 4) :
        /\ s[i] = "A" /\ s[i + 1] = "T" /\ s[i + 2] = "C" /\ s[i + 3] = "_"
        /\ s[i + 4] \in (DigitChars \cup UpperSet)

----------------------------------------------------------------------------
(* The strings of the modelled world *)

AddrDeskUpper   == << "A","4",":","C","1",":","3","8",":","0","C",":","5","B",":","4","5" >>
AddrDesk        == << "a","4",":","c","1",":","3","8",":","0","c",":","5","b",":","4","5" >>
AddrShelfUpper  == << "A","4",":","C","1",":","3","8",":","0","5",":","B","C",":","D","E" >>
AddrShelf       == << "a","4",":","c","1",":","3","8",":","0","5",":","b","c",":","d","e" >>
AddrAttic       == << "a","4",":","c","1",":","3","8",":","8","b",":","e","2",":","7","1" >>
AddrClone       == << "a","4",":","c","1",":","3","8",":","a","a",":","0","0",":","0","1" >>
AddrOther       == << "5","c",":","f","3",":","7","0",":","1","1",":","2","2",":","3","3" >>

NameDesk   == << "A","T","C","_","0","C","5","B","4","5" >>
NameAttic  == << "A","T","C","_","8","B","E","2","7","1" >>
NameClone  == << "a","t","c","_","8","b","e","2","7","1" >>
NameOther  == << "L","Y","W","S","D" >>
NoName     == << >>

SectDefault == << "D","E","F","A","U","L","T" >>

----------------------------------------------------------------------------
(* Maps *)

EmptyMap == [ k \in {} |-> 0 ]

\* m[k] = v of a Go map
Put(m, k, v) == [ x \in (DOMAIN m) \cup {k} |-> IF x = k THEN v ELSE m[x] ]

\* len(m) of a Go map
MapLen(m) == Cardinality(DOMAIN m)

\* m[k] read from a Go map: the zero value zero when k is absent
Lookup(m, k, zero) == IF k \in DOMAIN m THEN m[k] ELSE zero

----------------------------------------------------------------------------
(* The wireless world: what the transport can report *)

\* ble.Advertisement: Addr().String() and LocalName() of each device in range
Advertisement ==
    << [ addr |-> AddrDesk,  name |-> NameDesk  ],
       [ addr |-> AddrShelf, name |-> NoName    ],
       [ addr |-> AddrAttic, name |-> NameAttic ],
       [ addr |-> AddrClone, name |-> NameClone ],
       [ addr |-> AddrOther, name |-> NameOther ] >>

Devices == DOMAIN Advertisement

\* ble.Profile values DiscoverProfile can return: services with their
\* characteristics; readable is (c.Property & ble.CharRead) != 0
EnvFull   == [ uuid |-> "181a",
               chars |-> << [ uuid |-> "2a1f", readable |-> TRUE ],
                            [ uuid |-> "2a6f", readable |-> TRUE ] >> ]
EnvNoHum  == [ uuid |-> "181a",
               chars |-> << [ uuid |-> "2a1f", readable |-> TRUE ],
                            [ uuid |-> "2a6f", readable |-> FALSE ] >> ]
Battery   == [ uuid |-> "180f",
               chars |-> << [ uuid |-> "2a19", readable |-> TRUE ] >> ]
GenericAccess == [ uuid |-> "1800",
               chars |-> << [ uuid |-> "2a00", readable |-> TRUE ] >> ]

Profiles == { << GenericAccess, EnvFull >>,
              << EnvNoHum, Battery >>,
              << GenericAccess >> }

\* byte slices ReadCharacteristic can return: 215, 4500 and a one-byte value
ReadValues == { << 215, 0 >>, << 148, 17 >>, << 7 >> }

----------------------------------------------------------------------------
(* Settings files *)

SensorDesk  == << "D","e","s","k" >>
SensorShelf == << "S","h","e","l","f" >>
SensorAttic == << "A","t","t","i","c" >>

Section(n, keys) == [ name |-> n, keys |-> keys ]

BothKeys(sensorname, topic) ==
    [ k \in { "sensorname", "topic" } |->
        IF k = "sensorname" THEN sensorname ELSE topic ]

OnlySensorName(sensorname) == [ k \in { "sensorname" } |-> sensorname ]

\* iniFile.Sections() always starts with the DEFAULT section
IniDistinctTopics ==
    << Section(SectDefault, EmptyMap),
       Section(AddrDeskUpper, BothKeys(SensorDesk, "temperature/room")),
       Section(NameAttic, BothKeys(SensorAttic, "temperature/attic")) >>

IniSharedTopic ==
    << Section(SectDefault, EmptyMap),
       Section(AddrDeskUpper, BothKeys(SensorDesk, "temperature/room")),
       Section(AddrShelfUpper, BothKeys(SensorShelf, "temperature/room")) >>

IniNoTopic ==
    << Section(SectDefault, EmptyMap),
       Section(AddrDeskUpper, OnlySensorName(SensorDesk)) >>

IniEmptyTopic ==
    << Section(SectDefault, EmptyMap),
       Section(AddrDeskUpper, BothKeys(SensorDesk, "")) >>

IniCustom ==
    << Section(SectDefault, EmptyMap),
       Section(AddrShelfUpper, BothKeys(SensorShelf, "temperature/shelf")) >>

IniNoSensors ==
    << Section(SectDefault, EmptyMap),
       Section(NameOther, BothKeys(SensorDesk, "temperature/room")) >>

\* what ini.Load finds at the settings path: no file, or one of the files above
NoFile == [ exists |-> FALSE, sections |-> << >> ]

File(sections) == [ exists |-> TRUE, sections |-> sections ]

IniFiles == { NoFile, File(IniDistinctTopics), File(IniSharedTopic),
              File(IniNoTopic), File(IniEmptyTopic), File(IniNoSensors) }

\* the settings paths: the default of the flag and another one
SettingsPaths == { "devices.ini", "custom.ini" }

\* the file system: what ini.Load finds at a path
FileAt(path, atDefault) == IF path = "devices.ini" THEN atDefault ELSE File(IniCustom)

\* sensorInfo
sensorInfo(sensorName, mqttTopic) == [ sensorName |-> sensorName, mqttTopic |-> mqttTopic ]

\* the zero value a Go map lookup yields for an absent key
ZeroSensorInfo == sensorInfo(<< >>, "")

\* the loop of loadKnownSensors from section i on; fatal when log.Fatalf ran
RECURSIVE LoadSections(_, _, _)
LoadSections(sections, i, known) ==
    IF i > Len(sections) THEN [ fatal |-> FALSE, known |-> known ]
    ELSE LET addressOrName == sections[i].name
             keys == sections[i].keys
         IN  IF ~macAddressRegex(ToLower(addressOrName)) /\ ~atcDeviceRegex(addressOrName)
             THEN LoadSections(sections, i + 1, known)
             ELSE IF "sensorname" \notin DOMAIN keys \/ "topic" \notin DOMAIN keys
             THEN [ fatal |-> TRUE, known |-> known ]
             ELSE LoadSections(sections, i + 1,
                      Put(known, ToLower(addressOrName),
                          sensorInfo(ToLower(keys["sensorname"]), keys["topic"])))

loadKnownSensors(file) ==
    IF ~file.exists THEN [ fatal |-> TRUE, known |-> EmptyMap ]
    ELSE LoadSections(file.sections, 1, EmptyMap)

----------------------------------------------------------------------------
(* Bounds *)

\* scan durations tried: 0 .. MaxScanTicks clock ticks of 500 ms
MaxScanTicks == 1

----------------------------------------------------------------------------
(* main, up to the end of the scan *)

cfgVars  == << iniFile, argSettings, deviceSettingsFile, scanDuration, dec >>
scanVars == << now, scanStart, scanErr, adv, seen >>
pollVars == << todo, cur, polls, cln, sess, expired, watcher, done, closes,
               profile, rpos, payload, payloads, okPolls >>
mqttVars == << mqttConnects, mqttUp, pubTodo, pubCalls, published >>

\* no bytes are being decoded
NoDecode ==
    [ stage |-> "none", b |-> << 0, 0 >>, raw |-> 0,
      temperature |-> [ whole |-> 0, tenth |-> 0 ], humidity |-> 0 ]

\* the state of main before its first statement
MainStart ==
    /\ deviceSettingsFile = "devices.ini"
    /\ exitCode = -1
    /\ fatal = "none"
    /\ knownSensors = EmptyMap
    /\ foundDevices = EmptyMap
    /\ now = 1500
    /\ scanStart = 0
    /\ scanErr = "none"
    /\ adv = 0
    /\ seen = {}
    /\ todo = {}
    /\ cur = << >>
    /\ polls = EmptyMap
    /\ cln = EmptyMap
    /\ sess = EmptyMap
    /\ expired = FALSE
    /\ watcher = EmptyMap
    /\ done = EmptyMap
    /\ closes = EmptyMap
    /\ profile = << >>
    /\ rpos = << 1, 1 >>
    /\ payload = EmptyMap
    /\ payloads = EmptyMap
    /\ okPolls = EmptyMap
    /\ mqttConnects = 0
    /\ mqttUp = FALSE
    /\ pubTodo = {}
    /\ pubCalls = 0
    /\ published = EmptyMap

Init ==
    /\ iniFile \in IniFiles
    /\ argSettings \in SettingsPaths
    /\ scanDuration \in { 500 * k : k \in 0..MaxScanTicks }
    /\ pc = "load"
    /\ dec = NoDecode
    /\ MainStart

\* the process ends: os.Exit(1) of log.Fatalf, exit status 2 of a panic,
\* or the return of main
Exit(code, cause) ==
    /\ pc' = "exited"
    /\ exitCode' = code
    /\ fatal' = cause

\* main: loadKnownSensors and the len(knownSensors) == 0 return
LoadKnownSensors ==
    /\ pc = "load"
    /\ LET r == loadKnownSensors(FileAt(deviceSettingsFile, iniFile))
       IN  IF r.fatal
           THEN Exit(1, "config") /\ UNCHANGED knownSensors
           ELSE /\ knownSensors' = r.known
                /\ IF MapLen(r.known) = 0
                   THEN Exit(0, "none")
                   ELSE pc' = "newDevice" /\ UNCHANGED << exitCode, fatal >>
    /\ UNCHANGED << cfgVars, foundDevices, scanVars, pollVars, mqttVars >>

\* main: flag.Parse sets the flag variables, dev.NewDevice succeeds, scanContext is created
NewDevice ==
    /\ pc = "newDevice"
    /\ deviceSettingsFile' = argSettings
    /\ pc' = "scan"
    /\ scanStart' = now
    /\ UNCHANGED << iniFile, argSettings, scanDuration, dec, exitCode, fatal, knownSensors, foundDevices,
                    now, scanErr, adv, seen, pollVars, mqttVars >>

\* main: flag.Parse sets the flag variables, dev.NewDevice fails, log.Fatalf
NewDeviceFail ==
    /\ pc = "newDevice"
    /\ deviceSettingsFile' = argSettings
    /\ Exit(1, "newDevice")
    /\ UNCHANGED << iniFile, argSettings, scanDuration, dec, knownSensors, foundDevices, scanVars, pollVars, mqttVars >>

\* ScanCallback with the name test replaced by the firmware name pattern
ScanCallbackByPattern(known, found, a) ==
    LET deviceAddress == ToLower(a.addr)
        deviceLocalName == a.name
    IN  IF deviceAddress \in DOMAIN known
        THEN Put(found, deviceAddress, known[deviceAddress])
        ELSE IF atcDeviceRegex(deviceLocalName)
        THEN Put(found, deviceLocalName, Lookup(known, deviceLocalName, ZeroSensorInfo))
        ELSE found

\* ScanCallback with the matched set created anew at each call
ScanCallbackFreshMap(known, found, a) ==
    LET deviceAddress == ToLower(a.addr)
        deviceLocalName == a.name
    IN  IF deviceAddress \in DOMAIN known
        THEN Put(EmptyMap, deviceAddress, known[deviceAddress])
        ELSE IF deviceLocalName \in DOMAIN known
        THEN Put(EmptyMap, deviceLocalName, known[deviceLocalName])
        ELSE found

\* the callback main passes to ble.Scan
ScanCallback(known, found, a) ==
    LET deviceAddress == ToLower(a.addr)
        deviceLocalName == a.name
    IN  IF deviceAddress \in DOMAIN known
        THEN Put(found, deviceAddress, known[deviceAddress])
        ELSE IF deviceLocalName \in DOMAIN known
        THEN Put(found, deviceLocalName, known[deviceLocalName])
        ELSE found

\* the transport reports the advertisement of device d
Observe(d) ==
    /\ pc = "scan"
    /\ adv' = d
    /\ seen' = seen \cup {d}
    /\ foundDevices' = ScanCallback(knownSensors, foundDevices, Advertisement[d])
    /\ UNCHANGED << cfgVars, pc, exitCode, fatal, knownSensors, now, scanStart,
                    scanErr, pollVars, mqttVars >>

\* context.WithTimeout(ctx, d): the deadline is scanStart + d and the
\* context is done as soon as the clock has reached it
ScanDeadlinePassed == now >= scanStart + scanDuration

\* time passes during the scan
Tick ==
    /\ pc = "scan"
    /\ ~ScanDeadlinePassed
    /\ now' = now + 500
    /\ UNCHANGED << cfgVars, pc, exitCode, fatal, knownSensors, foundDevices,
                    scanStart, scanErr, adv, seen, pollVars, mqttVars >>

\* chkErr with the context.Canceled case missing
chkErrNoCanceled(cause) == cause \notin { "nil", "deadline" }

\* chkErr: log.Fatalf is called for the cause of err
chkErr(cause) == cause \notin { "nil", "deadline", "canceled" }

\* main: ble.Scan returns an error with the given cause and chkErr handles it
ScanReturn(cause) ==
    /\ pc = "scan"
    /\ scanErr' = cause
    /\ adv' = 0
    /\ seen' = {}
    /\ IF chkErr(cause)
       THEN Exit(1, "scan")
       ELSE pc' = "found" /\ UNCHANGED << exitCode, fatal >>
    /\ UNCHANGED << cfgVars, knownSensors, foundDevices, now, scanStart,
                    pollVars, mqttVars >>

\* ble.Scan returns context.DeadlineExceeded; chkErr prints "done"
ScanDeadline ==
    /\ ScanDeadlinePassed
    /\ ScanReturn("deadline")

\* a signal cancels scanContext: ble.Scan returns context.Canceled;
\* chkErr prints "canceled"
ScanCanceled == ScanReturn("canceled")

\* ble.Scan returns any other error; chkErr calls log.Fatalf
ScanFail == ScanReturn("other")

\* main: the len(foundDevices) == 0 return before the poll loop
NoDevicesFound(found) == MapLen(found) = 0

\* CheckFound with the broker connection opened before the test
CheckFoundConnectFirst ==
    /\ pc = "found"
    /\ mqttConnects' = mqttConnects + 1
    /\ IF NoDevicesFound(foundDevices)
       THEN /\ Exit(0, "none")
            /\ UNCHANGED << todo, polls, cln, sess, watcher, done, closes >>
       ELSE /\ pc' = "loop"
            /\ todo' = DOMAIN foundDevices
            /\ polls' = [ k \in DOMAIN foundDevices |-> 0 ]
            /\ cln' = [ k \in DOMAIN foundDevices |-> 0 ]
            /\ sess' = [ k \in DOMAIN foundDevices |-> "none" ]
            /\ watcher' = [ k \in DOMAIN foundDevices |-> "none" ]
            /\ done' = [ k \in DOMAIN foundDevices |-> FALSE ]
            /\ closes' = [ k \in DOMAIN foundDevices |-> 0 ]
            /\ UNCHANGED << exitCode, fatal >>
    /\ UNCHANGED << cfgVars, knownSensors, foundDevices, scanVars, cur, expired,
                    profile, rpos, payload, payloads, okPolls, mqttUp, pubTodo,
                    pubCalls, published >>

\* main: lines between the scan and the poll loop
CheckFound ==
    /\ pc = "found"
    /\ IF NoDevicesFound(foundDevices)
       THEN /\ Exit(0, "none")
            /\ UNCHANGED << todo, polls, cln, sess, watcher, done, closes >>
       ELSE /\ pc' = "loop"
            /\ todo' = DOMAIN foundDevices
            /\ polls' = [ k \in DOMAIN foundDevices |-> 0 ]
            /\ cln' = [ k \in DOMAIN foundDevices |-> 0 ]
            /\ sess' = [ k \in DOMAIN foundDevices |-> "none" ]
            /\ watcher' = [ k \in DOMAIN foundDevices |-> "none" ]
            /\ done' = [ k \in DOMAIN foundDevices |-> FALSE ]
            /\ closes' = [ k \in DOMAIN foundDevices |-> 0 ]
            /\ UNCHANGED << exitCode, fatal >>
    /\ UNCHANGED << cfgVars, knownSensors, foundDevices, scanVars, cur, expired,
                    profile, rpos, payload, payloads, okPolls, mqttVars >>

----------------------------------------------------------------------------
(* The poll loop of main and getDeviceData *)

\* the pc values inside getDeviceData
PollPcs == { "connect", "discover", "read", "cancel", "waitDone" }

Running == exitCode = -1

LinkUp(k) == sess[k] \in { "open", "closing" }

\* main: the range loop over foundDevices picks the next key and calls
\* getDeviceData, which creates serviceDiscoveryContext
LoopNext(k) ==
    /\ pc = "loop"
    /\ k \in todo
    /\ todo' = todo \ {k}
    /\ cur' = k
    /\ polls' = [ polls EXCEPT ![k] = @ + 1 ]
    /\ expired' = FALSE
    /\ pc' = "connect"
    /\ UNCHANGED << cfgVars, exitCode, fatal, knownSensors, foundDevices, scanVars,
                    cln, sess, watcher, done, closes, profile, rpos,
                    payload, payloads, okPolls, mqttVars >>

\* the 60 s deadline of serviceDiscoveryContext passes during the call
CtxExpire ==
    /\ pc \in PollPcs
    /\ ~expired
    /\ expired' = TRUE
    /\ UNCHANGED << cfgVars, pc, exitCode, fatal, knownSensors, foundDevices, scanVars,
                    todo, cur, polls, cln, sess, watcher, done, closes, profile,
                    rpos, payload, payloads, okPolls, mqttVars >>

\* filter without the comparison of the address
filterByNameOnly(a, nameOrAddress) == a.name = nameOrAddress

\* getDeviceData: the filter passed to ble.Connect
filter(a, nameOrAddress) == a.name = nameOrAddress \/ a.addr = nameOrAddress

\* getDeviceData: ble.Connect returns a client for device d; the goroutine starts
ConnectOk(d) ==
    /\ pc = "connect"
    /\ ~expired
    /\ filter(Advertisement[d], cur)
    /\ cln' = [ cln EXCEPT ![cur] = d ]
    /\ sess' = [ sess EXCEPT ![cur] = "open" ]
    /\ watcher' = [ watcher EXCEPT ![cur] = "waiting" ]
    /\ pc' = "discover"
    /\ UNCHANGED << cfgVars, exitCode, fatal, knownSensors, foundDevices, scanVars,
                    todo, cur, polls, expired, done, closes, profile, rpos,
                    payload, payloads, okPolls, mqttVars >>

\* getDeviceData: ble.Connect returns an error (the deadline passed, a
\* signal cancelled the context, or the dial failed); log.Fatalf
ConnectFail ==
    /\ pc = "connect"
    /\ Exit(1, IF expired THEN "connect deadline" ELSE "connect")
    /\ UNCHANGED << cfgVars, knownSensors, foundDevices, scanVars, pollVars, mqttVars >>

\* the peripheral drops the link
RemoteDisconnect(k) ==
    /\ Running
    /\ k \in DOMAIN sess
    /\ sess[k] = "open"
    /\ sess' = [ sess EXCEPT ![k] = "closed" ]
    /\ UNCHANGED << cfgVars, pc, exitCode, fatal, knownSensors, foundDevices, scanVars,
                    todo, cur, polls, cln, expired, watcher, done, closes, profile,
                    rpos, payload, payloads, okPolls, mqttVars >>

\* the transport completes the disconnect CancelConnection asked for
LinkDown(k) ==
    /\ Running
    /\ k \in DOMAIN sess
    /\ sess[k] = "closing"
    /\ sess' = [ sess EXCEPT ![k] = "closed" ]
    /\ UNCHANGED << cfgVars, pc, exitCode, fatal, knownSensors, foundDevices, scanVars,
                    todo, cur, polls, cln, expired, watcher, done, closes, profile,
                    rpos, payload, payloads, okPolls, mqttVars >>

\* getDeviceData: the goroutine receives from cln.Disconnected() and closes done
WatcherRun(k) ==
    /\ Running
    /\ k \in DOMAIN watcher
    /\ watcher[k] = "waiting"
    /\ sess[k] = "closed"
    /\ done' = [ done EXCEPT ![k] = TRUE ]
    /\ closes' = [ closes EXCEPT ![k] = @ + 1 ]
    /\ watcher' = [ watcher EXCEPT ![k] = "finished" ]
    /\ UNCHANGED << cfgVars, pc, exitCode, fatal, knownSensors, foundDevices, scanVars,
                    todo, cur, polls, cln, sess, expired, profile, rpos, payload,
                    payloads, okPolls, mqttVars >>

\* getDeviceData: cln.DiscoverProfile returns profile p
DiscoverOk(p) ==
    /\ pc = "discover"
    /\ sess[cur] = "open"
    /\ profile' = p
    /\ rpos' = << 1, 1 >>
    /\ payload' = EmptyMap
    /\ pc' = "read"
    /\ UNCHANGED << cfgVars, exitCode, fatal, knownSensors, foundDevices, scanVars,
                    todo, cur, polls, cln, sess, expired, watcher, done, closes,
                    payloads, okPolls, mqttVars >>

\* getDeviceData: cln.DiscoverProfile returns an error; log.Fatalf
DiscoverFail ==
    /\ pc = "discover"
    /\ Exit(1, "discover")
    /\ UNCHANGED << cfgVars, knownSensors, foundDevices, scanVars, pollVars, mqttVars >>

----------------------------------------------------------------------------
(* readCharacteristics *)

\* x | y on unsigned integers
RECURSIVE BitOr(_, _)
BitOr(x, y) ==
    IF x = 0 THEN y
    ELSE IF y = 0 THEN x
    ELSE (IF x % 2 = 1 \/ y % 2 = 1 THEN 1 ELSE 0) + 2 * BitOr(x \div 2, y \div 2)

\* uint16(x) << n
ShiftLeft16(x, n) == (x * 2^n) % 65536

\* parseLittleEndianValue with the two bytes taken in the other order
parseBigEndianValue(b) == BitOr(b[2], ShiftLeft16(b[1], 8))

\* uint16(b[0]) | uint16(b[1])<<8
parseLittleEndianValue(b) == BitOr(b[1], ShiftLeft16(b[2], 8))

\* float32(raw) / 10, as its integer part and its first decimal
DecodeTemperature(b) ==
    LET raw == parseLittleEndianValue(b)
    IN  [ whole |-> raw \div 10, tenth |-> raw % 10 ]

\* raw / 100 in uint16 arithmetic
DecodeHumidity(b) == parseLittleEndianValue(b) \div 100

\* the services readCharacteristics looks into
ServiceOfInterest(s) == s.uuid = "181a" \/ s.uuid = "180f"

AtService == rpos[1] <= Len(profile)
CurService == profile[rpos[1]]
AtChar == AtService /\ ServiceOfInterest(CurService) /\ rpos[2] <= Len(CurService.chars)
CurChar == CurService.chars[rpos[2]]

readVars == << cfgVars, pc, exitCode, fatal, knownSensors, foundDevices, scanVars,
               todo, cur, polls, cln, sess, expired, watcher, done, closes,
               profile, payloads, okPolls, mqttVars >>

\* a service that is neither environment sensing nor battery: continue
ReadSkipService ==
    /\ pc = "read"
    /\ AtService /\ ~ServiceOfInterest(CurService)
    /\ rpos' = << rpos[1] + 1, 1 >>
    /\ UNCHANGED << readVars, payload >>

\* a characteristic without the read property
ReadSkipChar ==
    /\ pc = "read"
    /\ AtChar /\ ~CurChar.readable
    /\ rpos' = << rpos[1], rpos[2] + 1 >>
    /\ UNCHANGED << readVars, payload >>

\* cln.ReadCharacteristic returns an error: continue
ReadCharErr ==
    /\ pc = "read"
    /\ AtChar /\ CurChar.readable
    /\ rpos' = << rpos[1], rpos[2] + 1 >>
    /\ UNCHANGED << readVars, payload >>

\* the switch on c.UUID after a successful read of bytes b
Decoded(pl, uuid, b) ==
    IF uuid = "2a1f" THEN Put(pl, "temperature", DecodeTemperature(b))
    ELSE IF uuid = "2a6f" THEN Put(pl, "humidity", DecodeHumidity(b))
    ELSE pl

\* parseLittleEndianValue indexes b[0] and b[1]: a shorter slice panics
DecodePanics(uuid, b) == uuid \in { "2a1f", "2a6f" } /\ Len(b) < 2

\* cln.ReadCharacteristic returns bytes b
ReadCharOk(b) ==
    /\ pc = "read"
    /\ AtChar /\ CurChar.readable
    /\ sess[cur] = "open"
    /\ IF DecodePanics(CurChar.uuid, b)
       THEN /\ Exit(2, "decode panic")
            /\ UNCHANGED << cfgVars, knownSensors, foundDevices, scanVars,
                            pollVars, mqttVars >>
       ELSE /\ payload' = Decoded(payload, CurChar.uuid, b)
            /\ rpos' = << rpos[1], rpos[2] + 1 >>
            /\ UNCHANGED readVars

\* end of the characteristics of a service of interest: the timestamp
ReadEndService ==
    /\ pc = "read"
    /\ AtService /\ ServiceOfInterest(CurService) /\ ~AtChar
    /\ payload' = Put(payload, "timestamp", now \div 1000)
    /\ rpos' = << rpos[1] + 1, 1 >>
    /\ UNCHANGED readVars

\* readCharacteristics returns; getDeviceData adds address and sensorname
ReadReturn ==
    /\ pc = "read"
    /\ ~AtService
    /\ payload' = Put(Put(payload, "address", Advertisement[cln[cur]].addr),
                      "sensorname", foundDevices[cur].sensorName)
    /\ pc' = "cancel"
    /\ UNCHANGED << cfgVars, exitCode, fatal, knownSensors, foundDevices, scanVars,
                    todo, cur, polls, cln, sess, expired, watcher, done, closes,
                    profile, rpos, payloads, okPolls, mqttVars >>

----------------------------------------------------------------------------
(* The end of getDeviceData and the publish step of main *)

\* CancelConnection without the call of cln.CancelConnection
CancelConnectionOmitted ==
    /\ pc = "cancel"
    /\ pc' = "waitDone"
    /\ UNCHANGED << cfgVars, exitCode, fatal, knownSensors, foundDevices, scanVars,
                    todo, cur, polls, cln, sess, expired, watcher, done, closes,
                    profile, rpos, payload, payloads, okPolls, mqttVars >>

\* getDeviceData: cln.CancelConnection asks the transport to disconnect
CancelConnection ==
    /\ pc = "cancel"
    /\ sess' = [ sess EXCEPT ![cur] = IF @ = "open" THEN "closing" ELSE @ ]
    /\ pc' = "waitDone"
    /\ UNCHANGED << cfgVars, exitCode, fatal, knownSensors, foundDevices, scanVars,
                    todo, cur, polls, cln, expired, watcher, done, closes, profile,
                    rpos, payload, payloads, okPolls, mqttVars >>

\* DoneReceived without the receive from done
DoneNotAwaited(k) == TRUE

\* getDeviceData: <-done
DoneReceived(k) == done[k]

\* getDeviceData returns payload and a nil error; main stores the payload
\* under the topic of the device
PollReturn ==
    /\ pc = "waitDone"
    /\ DoneReceived(cur)
    /\ LET topic == Lookup(knownSensors, cur, ZeroSensorInfo).mqttTopic
       IN  payloads' = Put(payloads, topic, payload)
    /\ okPolls' = Put(okPolls, cur, payload)
    /\ profile' = << >>
    /\ rpos' = << 1, 1 >>
    /\ payload' = EmptyMap
    /\ pc' = "loop"
    /\ UNCHANGED << cfgVars, exitCode, fatal, knownSensors, foundDevices, scanVars,
                    todo, cur, polls, cln, sess, expired, watcher, done, closes,
                    mqttVars >>

\* main: the poll loop is over; the publish step runs if len(payloads) > 0,
\* otherwise main returns
LoopEnd ==
    /\ pc = "loop"
    /\ todo = {}
    /\ IF MapLen(payloads) > 0
       THEN pc' = "mqttConnect" /\ UNCHANGED << exitCode, fatal >>
       ELSE Exit(0, "none")
    /\ UNCHANGED << cfgVars, knownSensors, foundDevices, scanVars, pollVars, mqttVars >>

\* main: client.Connect succeeds
MqttConnect ==
    /\ pc = "mqttConnect"
    /\ mqttConnects' = mqttConnects + 1
    /\ mqttUp' = TRUE
    /\ pubTodo' = DOMAIN payloads
    /\ pc' = "publish"
    /\ UNCHANGED << cfgVars, exitCode, fatal, knownSensors, foundDevices, scanVars,
                    pollVars, pubCalls, published >>

\* main: client.Connect fails; panic
MqttConnectFail ==
    /\ pc = "mqttConnect"
    /\ mqttConnects' = mqttConnects + 1
    /\ Exit(2, "mqtt connect")
    /\ UNCHANGED << cfgVars, knownSensors, foundDevices, scanVars, pollVars,
                    mqttUp, pubTodo, pubCalls, published >>

\* main: one iteration of the range loop over payloads: client.Publish
Publish(topic) ==
    /\ pc = "publish"
    /\ topic \in pubTodo
    /\ pubTodo' = pubTodo \ {topic}
    /\ pubCalls' = pubCalls + 1
    /\ published' = Put(published, topic,
                        Append(IF topic \in DOMAIN published THEN published[topic] ELSE << >>,
                               payloads[topic]))
    /\ UNCHANGED << cfgVars, pc, exitCode, fatal, knownSensors, foundDevices, scanVars,
                    pollVars, mqttConnects, mqttUp >>

\* main: client.Disconnect(1000) and the return of main
MqttDisconnect ==
    /\ pc = "publish"
    /\ pubTodo = {}
    /\ mqttUp' = FALSE
    /\ Exit(0, "none")
    /\ UNCHANGED << cfgVars, knownSensors, foundDevices, scanVars, pollVars,
                    mqttConnects, pubTodo, pubCalls, published >>

----------------------------------------------------------------------------
(* Decoding taken alone: every pair of bytes a read can return *)

Bytes == 0..255

InitDecode ==
    /\ iniFile = NoFile
    /\ argSettings = "devices.ini"
    /\ scanDuration = 0
    /\ pc = "decode"
    /\ MainStart
    /\ \E b0 \in Bytes, b1 \in Bytes :
          dec = [ NoDecode EXCEPT !.stage = "read", !.b = << b0, b1 >> ]

\* readCharacteristics: what the switch computes from the bytes, for the
\* temperature and for the humidity characteristic
DecodeBytes ==
    /\ pc = "decode"
    /\ dec.stage = "read"
    /\ dec' = [ stage |-> "decoded", b |-> dec.b,
                raw |-> parseLittleEndianValue(dec.b),
                temperature |-> Decoded(EmptyMap, "2a1f", dec.b)["temperature"],
                humidity |-> Decoded(EmptyMap, "2a6f", dec.b)["humidity"] ]
    /\ UNCHANGED << iniFile, argSettings, deviceSettingsFile, scanDuration, pc,
                    exitCode, fatal, knownSensors, foundDevices, scanVars,
                    pollVars, mqttVars >>

NextDecode == DecodeBytes

SpecDecode == InitDecode /\ [][NextDecode]_vars

----------------------------------------------------------------------------

Next ==
    \/ LoadKnownSensors
    \/ NewDevice
    \/ NewDeviceFail
    \/ \E d \in Devices : Observe(d)
    \/ Tick
    \/ ScanDeadline
    \/ ScanCanceled
    \/ ScanFail
    \/ CheckFound
    \/ \E k \in todo : LoopNext(k)
    \/ CtxExpire
    \/ \E d \in Devices : ConnectOk(d)
    \/ ConnectFail
    \/ \E k \in DOMAIN sess : RemoteDisconnect(k)
    \/ \E k \in DOMAIN sess : LinkDown(k)
    \/ \E k \in DOMAIN sess : WatcherRun(k)
    \/ \E p \in Profiles : DiscoverOk(p)
    \/ DiscoverFail
    \/ ReadSkipService
    \/ ReadSkipChar
    \/ ReadCharErr
    \/ \E b \in ReadValues : ReadCharOk(b)
    \/ ReadEndService
    \/ ReadReturn
    \/ CancelConnection
    \/ PollReturn
    \/ LoopEnd
    \/ MqttConnect
    \/ MqttConnectFail
    \/ \E t \in pubTodo : Publish(t)
    \/ MqttDisconnect

Spec == Init /\ [][Next]_vars

\* the transport completes a disconnect it was asked for, and the
\* goroutine and the poller run when they can
FairSpec ==
    /\ Spec
    /\ WF_vars(\E k \in DOMAIN sess : LinkDown(k))
    /\ WF_vars(\E k \in DOMAIN sess : WatcherRun(k))
    /\ WF_vars(PollReturn)

----------------------------------------------------------------------------
(* Properties *)

\* both required measurements are in the payload
HasBoth(pl) == { "temperature", "humidity" } \subseteq DOMAIN pl

\* number of elements of seq equal to x
Count(seq, x) == Cardinality({ i \in 1..Len(seq) : seq[i] = x })

\* number of publish calls that sent the payload of the poll of key k on
\* the topic the Registry holds for k
PublishedFor(k) ==
    LET topic == knownSensors[k].mqttTopic
    IN  IF topic \in DOMAIN published THEN Count(published[topic], okPolls[k]) ELSE 0

\* main returned after the publish step or after finding nothing to do
CycleCompleted == pc = "exited" /\ exitCode = 0

\* the process was ended by the session open or the discovery of key cur
SessionFailed == fatal \in { "connect", "connect deadline", "discover" }

\* C1: device isolation.  In a cycle with two or more matched devices, when
\* the session open or the profile discovery of a device fails, nothing is
\* published for it, every matched device is still polled, and every
\* device that yielded both measurements gets its message published.
C1_DeviceIsolation ==
    (pc = "exited" /\ MapLen(foundDevices) >= 2 /\ SessionFailed) =>
        /\ cur \notin DOMAIN okPolls
        /\ \A k \in DOMAIN foundDevices : polls[k] = 1
        /\ \A k \in DOMAIN okPolls : HasBoth(okPolls[k]) => PublishedFor(k) = 1

\* C2: emission precondition.  Every published payload carries both
\* temperature and humidity, and in a completed cycle a device whose poll
\* resolved both has exactly one message on its Registry topic.
C2_EmissionPrecondition ==
    /\ \A t \in DOMAIN published :
          \A i \in 1..Len(published[t]) : HasBoth(published[t][i])
    /\ CycleCompleted =>
          \A k \in DOMAIN okPolls : HasBoth(okPolls[k]) => PublishedFor(k) = 1

\* name is a section of the settings file that is a firmware name
ConfiguredAtcName(name) ==
    /\ atcDeviceRegex(name)
    /\ \E i \in 1..Len(iniFile.sections) : iniFile.sections[i].name = name

\* C3: match by local name.  After the callback handled an advertisement
\* whose lower-cased address is not a Registry key and whose local name is
\* a firmware name configured in the settings file, the device is in the
\* matched set.
C3_MatchByLocalName ==
    (pc = "scan" /\ adv # 0) =>
        LET a == Advertisement[adv]
        IN  (ToLower(a.addr) \notin DOMAIN knownSensors /\ ConfiguredAtcName(a.name)) =>
                (a.name \in DOMAIN foundDevices \/ ToLower(a.name) \in DOMAIN foundDevices)

\* C4: one message per successful device.  In a completed cycle the number
\* of publish calls is the number of devices whose poll returned both
\* measurements, and each of their payloads is published exactly once.
\* Stated for the cycles in which every returned poll carries both
\* measurements, where the count does not depend on what happens to a
\* partial payload.
C4_OneMessagePerDevice ==
    (CycleCompleted /\ \A k \in DOMAIN okPolls : HasBoth(okPolls[k])) =>
        /\ pubCalls = MapLen(okPolls)
        /\ \A k \in DOMAIN okPolls : PublishedFor(k) = 1

\* C5: a scan duration of zero is unbounded.  With scan duration 0 the
\* scan never ends by its deadline.
C5_ZeroMeansUnbounded ==
    scanDuration = 0 => scanErr # "deadline"

\* C6: session teardown.  A link that was opened is up only while the
\* process is inside the getDeviceData call that opened it; when the call
\* is left, or the process ends, the link is closed.
C6_SessionTeardown ==
    \A k \in DOMAIN sess :
        LinkUp(k) => (Running /\ pc \in PollPcs /\ cur = k)

\* C7: per-device deadline.  When the deadline of a device's session has
\* passed during its poll, the process is not ended by it and the poll
\* yields no message for the device.
C7_PerDeviceDeadline ==
    expired =>
        /\ fatal # "connect deadline"
        /\ (pc \notin PollPcs => cur \notin DOMAIN okPolls)

C9_EmptyBatchNoBroker ==
    MapLen(payloads) = 0 => (mqttConnects = 0 /\ pubCalls = 0)

\* a cycle that completed with a Registry but without a matched device
C9_Witness ==
    /\ CycleCompleted
    /\ MapLen(knownSensors) > 0
    /\ scanErr # "none"
    /\ MapLen(payloads) = 0
    /\ mqttConnects = 0

\* neither the lower-cased address nor the local name of device d is a Registry key
UnknownDevice(d) ==
    /\ ToLower(Advertisement[d].addr) \notin DOMAIN knownSensors
    /\ Advertisement[d].name \notin DOMAIN knownSensors

\* C10: no false positives.  Every key of the matched set is a Registry key
\* and carries the Registry's entry, and an advertisement whose address and
\* local name are both absent from the Registry leaves the matched set
\* unchanged.
C10_NoFalsePositives ==
    /\ [](\A k \in DOMAIN foundDevices :
            k \in DOMAIN knownSensors /\ foundDevices[k] = knownSensors[k])
    /\ [][(pc = "scan" /\ adv' # 0 /\ UnknownDevice(adv')) =>
            foundDevices' = foundDevices]_vars

\* an unknown device was just observed while a known one is in the matched set
C10_Witness ==
    /\ pc = "scan"
    /\ adv # 0
    /\ UnknownDevice(adv)
    /\ MapLen(foundDevices) >= 1

\* the matched set after the callback handled the advertisements of the
\* devices of S once each, in ascending order
RECURSIVE MatchAscending(_, _)
MatchAscending(known, S) ==
    IF S = {} THEN EmptyMap
    ELSE LET last == CHOOSE d \in S : \A e \in S : e <= d
         IN  ScanCallback(known, MatchAscending(known, S \ {last}), Advertisement[last])

\* C11: order independence and idempotence of matching.  During the scan
\* the matched set is the one obtained by handling each observed
\* advertisement once in ascending order, whatever the order and the
\* number of times they were observed, and observing an advertisement
\* again leaves the matched set unchanged.
C11_OrderIndependence ==
    /\ [](pc = "scan" => foundDevices = MatchAscending(knownSensors, seen))
    /\ [][(pc = "scan" /\ adv' # 0 /\ adv' \in seen) =>
            foundDevices' = foundDevices]_vars

\* two devices are matched and the one observed last is not the greatest
C11_Witness ==
    /\ pc = "scan"
    /\ MapLen(foundDevices) >= 2
    /\ adv # 0
    /\ \E d \in seen : d > adv /\ ~UnknownDevice(d)
    /\ ~UnknownDevice(adv)

\* C12: scan termination classification.  When the scan ends by its
\* deadline or by cancellation the process goes on to the poll phase with
\* the matched set as collected; when it ends for another cause the
\* process exits with an error and no device is polled, no broker
\* connection made and nothing published.
C12_ScanTermination ==
    /\ [](scanErr = "other" =>
            /\ pc = "exited" /\ exitCode = 1 /\ fatal = "scan"
            /\ MapLen(polls) = 0 /\ MapLen(okPolls) = 0
            /\ mqttConnects = 0 /\ pubCalls = 0)
    /\ [](scanErr \in { "deadline", "canceled" } => fatal # "scan")
    /\ [][(pc = "scan" /\ scanErr' \in { "deadline", "canceled" }) =>
            (pc' = "found" /\ exitCode' = -1 /\ foundDevices' = foundDevices)]_vars
    /\ [][(pc = "found" /\ MapLen(foundDevices) > 0) =>
            (pc' = "loop" /\ todo' = DOMAIN foundDevices)]_vars

\* a device is being polled after a cancelled scan
C12_Witness ==
    /\ pc = "connect"
    /\ scanErr = "canceled"
    /\ cur \in DOMAIN foundDevices

\* C13: exit status.  The process exits 0 when the scan ended normally
\* and no message was produced, whether no device matched or devices
\* matched, and when messages were published; it exits non-zero when the
\* configuration cannot be loaded and when the broker connection fails,
\* and then nothing is published.
C13_ExitStatus ==
    pc = "exited" =>
        /\ fatal = "config" => exitCode # 0
        /\ fatal = "mqtt connect" => (exitCode # 0 /\ pubCalls = 0)
        /\ pubCalls > 0 => exitCode = 0
        /\ (scanErr \in { "deadline", "canceled" } /\ MapLen(payloads) = 0) =>
              exitCode = 0

\* C14: topic invariant.  Every topic published on is non-empty and is
\* the Registry's topic of the device whose payload is published.
C14_TopicInvariant ==
    \A t \in DOMAIN published :
        /\ t # ""
        /\ \A i \in 1..Len(published[t]) :
              \E k \in DOMAIN okPolls :
                  /\ okPolls[k] = published[t][i]
                  /\ k \in DOMAIN knownSensors
                  /\ knownSensors[k].mqttTopic = t

\* C15: the settings path of the command line is honoured.  Once the
\* settings are loaded, the Registry is the one of the file at the path
\* given on the command line, and loading is fatal exactly if that file
\* cannot be loaded.
C15_SettingsPathHonoured ==
    pc # "load" =>
        LET r == loadKnownSensors(FileAt(argSettings, iniFile))
        IN  IF r.fatal THEN fatal = "config"
            ELSE fatal # "config" /\ knownSensors = r.known

\* C16: a malformed read is a per-device failure.  No byte sequence
\* returned by a characteristic read ends the process.
C16_MalformedReadIsLocal ==
    fatal # "decode panic"

\* C17: the timestamp is always present.  Every payload returned by a
\* poll that did not fail carries a timestamp.
C17_TimestampPresent ==
    \A k \in DOMAIN okPolls : "timestamp" \in DOMAIN okPolls[k]

\* C18: decoding.  For every pair of bytes the raw value is b0 + 256*b1,
\* within 0..65535; the temperature is raw/10 with one decimal and the
\* humidity is raw/100 truncated to an integer, without wrap-around; 250
\* gives 25.0, 215 gives 21.5, 10000 gives 100 and 4500 gives 45.
C18_Decoding ==
    dec.stage = "decoded" =>
        /\ dec.raw = dec.b[1] + 256 * dec.b[2]
        /\ dec.raw \in 0..65535
        /\ dec.temperature.tenth \in 0..9
        /\ 10 * dec.temperature.whole + dec.temperature.tenth = dec.raw
        /\ 100 * dec.humidity <= dec.raw
        /\ dec.raw < 100 * (dec.humidity + 1)
        /\ dec.b = << 250, 0 >> => dec.temperature = [ whole |-> 25, tenth |-> 0 ]
        /\ dec.b = << 215, 0 >> => dec.temperature = [ whole |-> 21, tenth |-> 5 ]
        /\ dec.b = << 16, 39 >> => dec.humidity = 100
        /\ dec.b = << 148, 17 >> => dec.humidity = 45

\* the bytes 0x10 0x27 were decoded to the humidity 100
C18_Witness ==
    /\ dec.stage = "decoded"
    /\ dec.b = << 16, 39 >>
    /\ dec.raw = 10000
    /\ dec.humidity = 100

\* the keys the callback records for advertisement a
RecordedKeys(known, a) == DOMAIN ScanCallback(known, EmptyMap, a)

\* advertisement a carries the identifier k
Carries(a, k) == ToLower(a.addr) = k \/ a.name = k

\* C19: the connect filter agrees with the Matcher.  The filter built from
\* the key under which the callback has just recorded an advertisement
\* accepts that advertisement, the filter of a matched key accepts no
\* advertisement that does not carry the key, and a client is connected
\* only to a device that carries the key.
C19_FilterAgreesWithMatcher ==
    /\ (pc = "scan" /\ adv # 0) =>
          \A k \in RecordedKeys(knownSensors, Advertisement[adv]) :
              k \in DOMAIN foundDevices /\ filter(Advertisement[adv], k)
    /\ \A k \in DOMAIN foundDevices : \A d \in Devices :
          filter(Advertisement[d], k) => Carries(Advertisement[d], k)
    /\ \A k \in DOMAIN cln :
          cln[k] # 0 => Carries(Advertisement[cln[k]], k)

\* a device matched by its address has just been observed
C19_Witness ==
    /\ pc = "scan"
    /\ adv # 0
    /\ ToLower(Advertisement[adv].addr) \in DOMAIN foundDevices
    /\ filter(Advertisement[adv], ToLower(Advertisement[adv].addr))

\* C20: synchronisation with the disconnect watcher.  done is closed at
\* most once; when getDeviceData has returned, done was closed exactly
\* once and the goroutine has finished; and the wait on done always ends.
C20_WatcherSynchronisation ==
    /\ [](\A k \in DOMAIN closes : closes[k] <= 1)
    /\ [](\A k \in DOMAIN okPolls :
            closes[k] = 1 /\ done[k] /\ watcher[k] = "finished" /\ sess[k] = "closed")
    /\ (pc = "waitDone") ~> (pc # "waitDone")

\* the device dropped the link and the goroutine closed done before the
\* poller reached CancelConnection
C20_Witness ==
    /\ pc = "cancel"
    /\ sess[cur] = "closed"
    /\ watcher[cur] = "finished"
    /\ closes[cur] = 1
    /\ done[cur]
====
